---- MODULE Spec2Model ----
(***************************************************************************)
(* A model of path_jail: the Jail resolver (src/src/jail.rs), the one-shot *)
(* join (src/src/lib.rs) and the hardened open layer (src/src/open.rs),    *)
(* on a Unix host.                                                         *)
(*                                                                         *)
(* A path string is a sequence of one-character strings, so that the       *)
(* parsing done by Path::components, PathBuf::push, PathBuf::pop and       *)
(* Path::starts_with is modelled by what it does.  The host filesystem is  *)
(* a tree of directories, regular files and symbolic links; exists,        *)
(* is_symlink, canonicalize and open are modelled by POSIX path            *)
(* resolution over that tree.                                              *)
(***************************************************************************)
EXTENDS Integers, Sequences, FiniteSets, TLC

VARIABLES fs, jail, op, arg, res, pc, pending

vars == <<fs, jail, op, arg, res, pc, pending>>

----------------------------------------------------------------------------
(* Bounds of the model *)

\* the longest input fragment, counted in '/'-separated pieces
MaxSegs == 3

\* the number of symbolic links one resolution follows before ELOOP
MaxHops == 3

\* the longest list of segments handed to join_segments
MaxSegments == 2

\* the longest fragment handed to open and create, in pieces
MaxOpenSegs == 2

\* the number of files create may leave where the environment does not reach
MaxCreated == 1

\* the longest fragment handed to the query-by-query join, in names
MaxRaceSegs == 2

----------------------------------------------------------------------------
(* Strings *)

NUL == "0"
SEP == "/"
BSL == "\\"

Last(s) == s[Len(s)]

Front(s) == SubSeq(s, 1, Len(s) - 1)

StrContains(s, c) == \E i \in 1..Len(s) : s[i] = c

RECURSIVE Flatten(_, _)
\* the pieces of ss joined by sep
Flatten(ss, sep) ==
    IF ss = <<>> THEN <<>>
    ELSE IF Len(ss) = 1 THEN ss[1]
    ELSE ss[1] \o sep \o Flatten(Tail(ss), sep)

RECURSIVE Split(_)
\* the pieces of s between separators (a string without separator is one piece)
Split(s) ==
    IF ~StrContains(s, SEP) THEN <<s>>
    ELSE LET i == CHOOSE k \in 1..Len(s) :
                      s[k] = SEP /\ \A m \in 1..(k - 1) : s[m] # SEP
         IN <<SubSeq(s, 1, i - 1)>> \o Split(SubSeq(s, i + 1, Len(s)))

----------------------------------------------------------------------------
(* std::path, Unix flavour *)

DOT == <<".">>
DOTDOT == <<".", ".">>

IsAbsolute(s) == Len(s) > 0 /\ s[1] = SEP

Comp(k, n) == [k |-> k, n |-> n]

\* components keeping a "." piece after the first as a name
ComponentsKeepingDot(s) ==
    LET ps == Split(s)
        F[i \in 0..Len(ps)] ==
            IF i = 0 THEN <<>>
            ELSE IF ps[i] = <<>> THEN F[i - 1]
            ELSE IF ps[i] = DOT /\ i = 1 THEN Append(F[i - 1], Comp("CurDir", <<>>))
            ELSE IF ps[i] = DOTDOT THEN Append(F[i - 1], Comp("ParentDir", <<>>))
            ELSE Append(F[i - 1], Comp("Normal", ps[i]))
    IN (IF IsAbsolute(s) THEN <<Comp("RootDir", <<>>)>> ELSE <<>>) \o F[Len(ps)]

\* Path::components: a leading separator is RootDir, empty pieces and "."
\* pieces vanish (a leading "." of a relative path is CurDir), ".." is
\* ParentDir, everything else is a Normal name
Components(s) ==
    LET ps == Split(s)
        F[i \in 0..Len(ps)] ==
            IF i = 0 THEN <<>>
            ELSE IF ps[i] = <<>> THEN F[i - 1]
            ELSE IF ps[i] = DOT
                 THEN IF i = 1
                      THEN Append(F[i - 1], Comp("CurDir", <<>>))
                      ELSE F[i - 1]
            ELSE IF ps[i] = DOTDOT THEN Append(F[i - 1], Comp("ParentDir", <<>>))
            ELSE Append(F[i - 1], Comp("Normal", ps[i]))
    IN (IF IsAbsolute(s) THEN <<Comp("RootDir", <<>>)>> ELSE <<>>) \o F[Len(ps)]

\* the text of one component
CompStr(c) ==
    CASE c.k = "RootDir" -> <<>>
      [] c.k = "CurDir" -> DOT
      [] c.k = "ParentDir" -> DOTDOT
      [] OTHER -> c.n

\* the path a component sequence spells (Components::as_path of a clean path)
FromComponents(cs) ==
    IF cs = <<>> THEN <<>>
    ELSE IF cs[1].k = "RootDir"
         THEN <<SEP>> \o Flatten([i \in 1..(Len(cs) - 1) |-> CompStr(cs[i + 1])], <<SEP>>)
         ELSE Flatten([i \in 1..Len(cs) |-> CompStr(cs[i])], <<SEP>>)

\* PathBuf::push of a relative piece
Push(buf, name) ==
    IF IsAbsolute(name) THEN name
    ELSE IF buf # <<>> /\ Last(buf) # SEP THEN buf \o <<SEP>> \o name
    ELSE buf \o name

\* Path::parent: None (modelled as the flag) for a root or an empty path
HasParent(s) ==
    LET cs == Components(s) IN cs # <<>> /\ Last(cs).k # "RootDir"

\* PathBuf::pop: truncate to the parent, leave a path without parent alone
Pop(buf) ==
    IF HasParent(buf) THEN FromComponents(Front(Components(buf))) ELSE buf

\* a prefix test on the characters of the two paths
StartsWithString(p, base) == Len(base) <= Len(p) /\ SubSeq(p, 1, Len(base)) = base

\* Path::starts_with: component-wise prefix
StartsWith(p, base) ==
    LET cp == Components(p)
        cb == Components(base)
    IN Len(cb) <= Len(cp) /\ SubSeq(cp, 1, Len(cb)) = cb

\* Path::strip_prefix: the components after base, or an error
StripPrefix(p, base) ==
    LET cp == Components(p)
        cb == Components(base)
    IN IF StartsWith(p, base)
       THEN [ok |-> TRUE, val |-> FromComponents(SubSeq(cp, Len(cb) + 1, Len(cp)))]
       ELSE [ok |-> FALSE, val |-> <<>>]

----------------------------------------------------------------------------
(* The host filesystem *)

NJ == <<"j">>
NJJ == <<"j", "j">>
NA == <<"a">>
NB == <<"b">>
NX == <<"x">>

\* the places of the tree that can hold an object; every other path is absent
Slots == {<<NJ>>, <<NJJ>>, <<NJJ, NA>>, <<NJ, NA>>, <<NJ, NB>>, <<NJ, NA, NA>>}

\* the places the environment changes while the program runs
Mutable == {<<NJ, NA>>, <<NJ, NB>>, <<NJ, NA, NA>>}

\* where a symbolic link may point (absolute targets)
Targets == {<<NJJ>>, <<NX>>, <<NJ, NA>>, <<NJ, NB>>, <<NJ, NA, NA>>}

None == [kind |-> "none", target |-> <<>>]
Dir == [kind |-> "dir", target |-> <<>>]
File == [kind |-> "file", target |-> <<>>]
Link(t) == [kind |-> "link", target |-> t]

Entries == {None, Dir, File} \cup {Link(t) : t \in Targets}

\* the object at an absolute location (a sequence of names)
Entry(f, loc) ==
    IF loc = <<>> THEN Dir
    ELSE IF loc \in DOMAIN f THEN f[loc]
    ELSE None

\* the current working directory of the process
Cwd == <<>>

\* the text of an absolute location
LocStr(loc) == <<SEP>> \o Flatten(loc, <<SEP>>)

ENOENT == "ENOENT"
ENOTDIR == "ENOTDIR"
ELOOP == "ELOOP"
EINVAL == "EINVAL"
EEXIST == "EEXIST"

WalkOk(loc) == [ok |-> TRUE, loc |-> loc, errno |-> ""]
WalkErr(e) == [ok |-> FALSE, loc |-> <<>>, errno |-> e]

RECURSIVE Walk(_, _, _, _, _)
\* POSIX path resolution of the pieces ps from the directory cur: "." stays,
\* ".." is the physical parent, a symbolic link is followed (the last piece
\* only when follow is set), at most hops links in all
Walk(f, cur, ps, follow, hops) ==
    IF ps = <<>> THEN WalkOk(cur)
    ELSE IF Entry(f, cur).kind # "dir" THEN WalkErr(ENOTDIR)
    ELSE LET p == Head(ps)
             rest == Tail(ps)
         IN IF p = <<>> \/ p = DOT THEN Walk(f, cur, rest, follow, hops)
            ELSE IF p = DOTDOT
                 THEN Walk(f, IF cur = <<>> THEN cur ELSE Front(cur), rest, follow, hops)
            ELSE LET nxt == Append(cur, p)
                     e == Entry(f, nxt)
                 IN IF e.kind = "none" THEN WalkErr(ENOENT)
                    ELSE IF e.kind = "link"
                         THEN IF rest = <<>> /\ ~follow THEN WalkOk(nxt)
                              ELSE IF hops = 0 THEN WalkErr(ELOOP)
                              ELSE Walk(f, <<>>, e.target \o rest, follow, hops - 1)
                    ELSE Walk(f, nxt, rest, follow, hops)

\* the pieces the kernel sees: a trailing separator behaves as a trailing "."
KernelPieces(s) ==
    LET ps == Split(s)
    IN IF Len(s) > 0 /\ Last(s) = SEP THEN Append(Front(ps), DOT) ELSE ps

\* stat (follow) or lstat (no follow) of a path string
Stat(f, s, follow) ==
    IF s = <<>> THEN WalkErr(ENOENT)
    ELSE IF StrContains(s, NUL) THEN WalkErr(EINVAL)
    ELSE Walk(f, IF IsAbsolute(s) THEN <<>> ELSE Cwd, KernelPieces(s), follow, MaxHops)

\* Path::exists
Exists(f, s) == Stat(f, s, TRUE).ok

\* Path::is_symlink
IsSymlink(f, s) ==
    LET r == Stat(f, s, FALSE) IN r.ok /\ Entry(f, r.loc).kind = "link"

\* Path::is_dir
IsDir(f, s) ==
    LET r == Stat(f, s, TRUE) IN r.ok /\ Entry(f, r.loc).kind = "dir"

\* Path::canonicalize (realpath): the text of the physical location
Canonicalize(f, s) ==
    LET r == Stat(f, s, TRUE)
    IN IF r.ok THEN [ok |-> TRUE, val |-> LocStr(r.loc), errno |-> ""]
       ELSE [ok |-> FALSE, val |-> <<>>, errno |-> r.errno]

----------------------------------------------------------------------------
(* JailError and results (src/src/error.rs) *)

Ok(v) == [ok |-> TRUE, kind |-> "Ok", val |-> v, root |-> <<>>, msg |-> "", queries |-> 0, joined |-> FALSE]

\* EscapedRoot { attempted, root }
EscapedRoot(attempted, root) ==
    [ok |-> FALSE, kind |-> "EscapedRoot", val |-> attempted, root |-> root,
     msg |-> "", queries |-> 0, joined |-> FALSE]

\* BrokenSymlink(path)
BrokenSymlink(path) ==
    [ok |-> FALSE, kind |-> "BrokenSymlink", val |-> path, root |-> <<>>,
     msg |-> "", queries |-> 0, joined |-> FALSE]

\* InvalidPath(reason)
InvalidPath(reason) ==
    [ok |-> FALSE, kind |-> "InvalidPath", val |-> <<>>, root |-> <<>>,
     msg |-> reason, queries |-> 0, joined |-> FALSE]

\* InvalidRoot(path)
InvalidRoot(path) ==
    [ok |-> FALSE, kind |-> "InvalidRoot", val |-> path, root |-> <<>>,
     msg |-> "", queries |-> 0, joined |-> FALSE]

\* Io(err), from std::io::Error
Io(errno) ==
    [ok |-> FALSE, kind |-> "Io", val |-> <<>>, root |-> <<>>,
     msg |-> errno, queries |-> 0, joined |-> FALSE]

\* a result of Jail::join, with the number of filesystem queries it made
Asked(r, n) == [r EXCEPT !.queries = n, !.joined = TRUE]

----------------------------------------------------------------------------
(* Jail (src/src/jail.rs) *)

\* verify_inside without the containment check
VerifyInsideUnchecked(f, root, path) ==
    LET c == Canonicalize(f, path)
    IN IF ~c.ok THEN Io(c.errno) ELSE Ok(c.val)

\* Jail::verify_inside: canonicalize, then the containment check
VerifyInside(f, root, path) ==
    LET c == Canonicalize(f, path)
    IN IF ~c.ok THEN Io(c.errno)
       ELSE IF ~StartsWith(c.val, root) THEN EscapedRoot(path, root)
       ELSE Ok(c.val)

\* Jail::new without the test for a filesystem root
NewNoParentTest(f, r) ==
    LET c == Canonicalize(f, r)
    IN IF ~c.ok THEN Io(c.errno)
       ELSE IF ~IsDir(f, c.val) THEN InvalidRoot(c.val)
       ELSE Ok(c.val)

\* Jail::new
New(f, r) ==
    LET c == Canonicalize(f, r)
    IN IF ~c.ok THEN Io(c.errno)
       ELSE IF ~HasParent(c.val) \/ ~IsDir(f, c.val) THEN InvalidRoot(c.val)
       ELSE Ok(c.val)

\* the state of the loop of Jail::join: the cursor, the result once an arm
\* has returned, the filesystem queries made so far
Walking(cur, n) == [done |-> FALSE, cur |-> cur, out |-> Ok(<<>>), n |-> n]
Returned(r, n) == [done |-> TRUE, cur |-> <<>>, out |-> r, n |-> n]

\* the re-verification keeping the cursor as spelled once it is verified
ReverifyKeepingCursor(f, root, current, n) ==
    IF Exists(f, current)
    THEN LET v == VerifyInside(f, root, current)
         IN IF v.ok THEN Walking(current, n + 2) ELSE Returned(v, n + 2)
    ELSE IF IsSymlink(f, current) THEN Returned(BrokenSymlink(current), n + 2)
    ELSE Walking(current, n + 2)

\* the re-verification canonicalizing whether or not the cursor exists
ReverifyMustExist(f, root, current, n) ==
    LET v == VerifyInside(f, root, current)
    IN IF v.ok THEN Walking(v.val, n + 1) ELSE Returned(v, n + 1)

\* the re-verification without the is_symlink test
ReverifyNoSymlinkTest(f, root, current, n) ==
    IF Exists(f, current)
    THEN LET v == VerifyInside(f, root, current)
         IN IF v.ok THEN Walking(v.val, n + 2) ELSE Returned(v, n + 2)
    ELSE Walking(current, n + 1)

\* the re-verification both arms of Jail::join share: exists, then
\* verify_inside, else is_symlink
Reverify(f, root, current, n) ==
    IF Exists(f, current)
    THEN LET v == VerifyInside(f, root, current)
         IN IF v.ok THEN Walking(v.val, n + 2) ELSE Returned(v, n + 2)
    ELSE IF IsSymlink(f, current) THEN Returned(BrokenSymlink(current), n + 2)
    ELSE Walking(current, n + 2)

\* the iteration without the prefix test after the pop
JoinStepNoPrefixTest(f, root, path, st, component) ==
    CASE component.k = "Normal" ->
             Reverify(f, root, Push(st.cur, component.n), st.n)
      [] component.k = "ParentDir" -> Reverify(f, root, Pop(st.cur), st.n)
      [] component.k = "CurDir" -> st
      [] OTHER -> Returned(InvalidPath("absolute components not allowed"), st.n)

\* one iteration of the loop of Jail::join
JoinStep(f, root, path, st, component) ==
    CASE component.k = "Normal" ->
             Reverify(f, root, Push(st.cur, component.n), st.n)
      [] component.k = "ParentDir" ->
             LET current == Pop(st.cur)
             IN IF ~StartsWith(current, root)
                THEN Returned(EscapedRoot(path, root), st.n)
                ELSE Reverify(f, root, current, st.n)
      [] component.k = "CurDir" -> st
      [] OTHER -> Returned(InvalidPath("absolute components not allowed"), st.n)

RECURSIVE JoinFrom(_, _, _, _, _)
\* the iterations of the loop of Jail::join over the components cs, from the
\* loop state st, until an arm returns
JoinFrom(f, root, path, st, cs) ==
    IF cs = <<>> \/ st.done THEN st
    ELSE JoinFrom(f, root, path, JoinStep(f, root, path, st, Head(cs)), Tail(cs))

\* what Jail::join returns when its loop ends in the state end: the result
\* of the arm that returned, or Ok(current)
Finished(end) ==
    IF end.done THEN Asked(end.out, end.n) ELSE Asked(Ok(end.cur), end.n)

\* the loop run over the components after each ".." has cancelled the name
\* before it
JoinLoopNormalized(f, root, path) ==
    LET cs == Components(path)
        N[i \in 0..Len(cs)] ==
            IF i = 0 THEN <<>>
            ELSE LET prev == N[i - 1]
                 IN IF cs[i].k = "ParentDir" /\ prev # <<>> /\ Last(prev).k = "Normal"
                    THEN Front(prev)
                    ELSE Append(prev, cs[i])
    IN Finished(JoinFrom(f, root, path, Walking(root, 0), N[Len(cs)]))

\* the loop of Jail::join over the components of path
JoinLoop(f, root, path) ==
    Finished(JoinFrom(f, root, path, Walking(root, 0), Components(path)))

\* join without the test for an absolute fragment
JoinNoAbsoluteTest(f, root, path) ==
    IF StrContains(path, NUL) THEN Asked(InvalidPath("null bytes not allowed"), 0)
    ELSE JoinLoop(f, root, path)

\* join testing for an absolute fragment before the null byte
JoinAbsoluteFirst(f, root, path) ==
    IF IsAbsolute(path) THEN Asked(InvalidPath("absolute paths not allowed"), 0)
    ELSE IF StrContains(path, NUL) THEN Asked(InvalidPath("null bytes not allowed"), 0)
    ELSE JoinLoop(f, root, path)

\* Jail::join
Join(f, root, path) ==
    IF StrContains(path, NUL) THEN Asked(InvalidPath("null bytes not allowed"), 0)
    ELSE IF IsAbsolute(path) THEN Asked(InvalidPath("absolute paths not allowed"), 0)
    ELSE JoinLoop(f, root, path)

\* contains handing a relative path to the containment test
ContainsNoAbsoluteTest(f, root, absolute) == VerifyInside(f, root, absolute)

\* Jail::contains
Contains(f, root, absolute) ==
    IF ~IsAbsolute(absolute) THEN InvalidPath("path must be absolute")
    ELSE VerifyInside(f, root, absolute)

\* relative returning the resolved path with the root still in front
RelativeUnstripped(f, root, path) ==
    IF IsAbsolute(path) THEN VerifyInside(f, root, path) ELSE Join(f, root, path)

\* the tail of Jail::relative: the resolved path with the root stripped
StripRoot(resolved, root, path) ==
    IF ~resolved.ok THEN resolved
    ELSE LET t == StripPrefix(resolved.val, root)
         IN IF t.ok THEN [resolved EXCEPT !.val = t.val]
            ELSE EscapedRoot(path, root)

\* Jail::relative
Relative(f, root, path) ==
    StripRoot(IF IsAbsolute(path) THEN VerifyInside(f, root, path)
              ELSE Join(f, root, path),
              root, path)

\* the validation loop testing for '/' only
SegmentsPathSlashOnly(segments) ==
    LET L[i \in 0..Len(segments)] ==
            IF i = 0 THEN Ok(<<>>)
            ELSE LET seg == segments[i]
                     path == L[i - 1]
                 IN IF ~path.ok THEN path
                    ELSE IF seg = <<>> THEN path
                    ELSE IF StrContains(seg, SEP)
                         THEN InvalidPath("segment contains path separator")
                    ELSE IF seg = DOTDOT THEN InvalidPath("segment '..' not allowed")
                    ELSE IF StrContains(seg, NUL)
                         THEN InvalidPath("segment contains null byte")
                    ELSE Ok(Push(path.val, seg))
    IN L[Len(segments)]

\* the validation loop of Jail::join_segments: the path it builds, or the
\* error of the first segment it rejects
SegmentsPath(segments) ==
    LET L[i \in 0..Len(segments)] ==
            IF i = 0 THEN Ok(<<>>)
            ELSE LET seg == segments[i]
                     path == L[i - 1]
                 IN IF ~path.ok THEN path
                    ELSE IF seg = <<>> THEN path
                    ELSE IF StrContains(seg, SEP) \/ StrContains(seg, BSL)
                         THEN InvalidPath("segment contains path separator")
                    ELSE IF seg = DOTDOT THEN InvalidPath("segment '..' not allowed")
                    ELSE IF StrContains(seg, NUL)
                         THEN InvalidPath("segment contains null byte")
                    ELSE Ok(Push(path.val, seg))
    IN L[Len(segments)]

\* Jail::join_segments
JoinSegments(f, root, segments) ==
    LET path == SegmentsPath(segments)
    IN IF ~path.ok THEN path ELSE Join(f, root, path.val)

\* the free function looking at the fragment before the root
JoinFnPathFirst(f, r, path) ==
    IF StrContains(path, NUL) THEN Asked(InvalidPath("null bytes not allowed"), 0)
    ELSE IF IsAbsolute(path) THEN Asked(InvalidPath("absolute paths not allowed"), 0)
    ELSE LET j == New(f, r)
         IN IF ~j.ok THEN j ELSE Join(f, j.val, path)

\* the free function join (src/src/lib.rs)
JoinFn(f, r, path) ==
    LET j == New(f, r)
    IN IF ~j.ok THEN j ELSE Join(f, j.val, path)

----------------------------------------------------------------------------
(* Hardened open (src/src/open.rs), Linux *)

O_NOFOLLOW == 131072

\* open(2) for reading: the handle is the physical location of the object
\* opened; with O_NOFOLLOW a symbolic link as last component is ELOOP
SysOpen(f, path, flags) ==
    LET r == Stat(f, path, flags = 0)
    IN IF ~r.ok THEN Io(r.errno)
       ELSE IF Entry(f, r.loc).kind = "link" THEN Io(ELOOP)
       ELSE Ok(LocStr(r.loc))

\* open(2) with O_CREAT | O_EXCL: the directory part is resolved following
\* links, the last name must be absent whatever the flags (O_EXCL never
\* follows a link); the result and the location of the new file
SysCreateNew(f, path, flags) ==
    LET ps == KernelPieces(path)
        name == Last(ps)
        d == Walk(f, IF IsAbsolute(path) THEN <<>> ELSE Cwd, Front(ps), TRUE, MaxHops)
    IN IF path = <<>> THEN [r |-> Io(ENOENT), loc |-> <<>>]
       ELSE IF StrContains(path, NUL) THEN [r |-> Io(EINVAL), loc |-> <<>>]
       ELSE IF ~d.ok THEN [r |-> Io(d.errno), loc |-> <<>>]
       ELSE IF Entry(f, d.loc).kind # "dir" THEN [r |-> Io(ENOTDIR), loc |-> <<>>]
       ELSE IF name \in {<<>>, DOT, DOTDOT} THEN [r |-> Io(EEXIST), loc |-> <<>>]
       ELSE IF Entry(f, Append(d.loc, name)).kind # "none"
            THEN [r |-> Io(EEXIST), loc |-> <<>>]
       ELSE [r |-> Ok(LocStr(Append(d.loc, name))), loc |-> Append(d.loc, name)]

\* an open step refusing a symbolic link at any component of the path
OpenStepNoSymlinks(f, path) ==
    LET ns == SelectSeq(Split(path), LAMBDA n : n # <<>>)
    IN IF \E n \in 1..Len(ns) : Entry(f, SubSeq(ns, 1, n)).kind = "link"
       THEN Io(ELOOP)
       ELSE SysOpen(f, path, O_NOFOLLOW)

\* the open step without O_NOFOLLOW
OpenStepFollowing(f, path) == SysOpen(f, path, 0)

\* the open step of Jail::open and of JailedPath::open
OpenStep(f, path) == SysOpen(f, path, O_NOFOLLOW)

\* the open step of create without O_EXCL: an existing object is opened
CreateStepNotExclusive(f, path) ==
    LET c == SysCreateNew(f, path, O_NOFOLLOW)
        o == SysOpen(f, path, O_NOFOLLOW)
    IN IF c.r.ok \/ c.r.msg # EEXIST \/ ~o.ok THEN c
       ELSE [r |-> o, loc |-> Stat(f, path, FALSE).loc]

\* the open step of Jail::create and of JailedPath::create
CreateStep(f, path) == SysCreateNew(f, path, O_NOFOLLOW)

----------------------------------------------------------------------------
(* Inputs *)

\* the pieces an input fragment is made of
Pieces == {<<>>, NA, NB, DOT, DOTDOT, <<NUL>>}

\* the fragments handed to join, relative, open and create: up to MaxSegs
\* pieces joined by separators (an empty first piece makes the fragment
\* absolute, an empty last piece gives a trailing separator)
Inputs ==
    {Flatten(ps, <<SEP>>) : ps \in UNION {[1..n -> Pieces] : n \in 1..MaxSegs}}

\* the fragments handed to open and create
OpenInputs ==
    {Flatten(ps, <<SEP>>) : ps \in UNION {[1..n -> Pieces] : n \in 1..MaxOpenSegs}}

\* the segments handed to join_segments
Segments == {<<>>, NA, NB, DOT, DOTDOT, <<NUL>>, <<BSL>>, <<"a", SEP, "b">>}

SegmentLists == UNION {[1..n -> Segments] : n \in 0..MaxSegments}

\* the roots handed to Jail::new and to the free function join
RootInputs ==
    {<<SEP>>, <<SEP, SEP>>, <<SEP, ".">>, LocStr(<<NJ>>), LocStr(<<NJJ>>),
     LocStr(<<NJJ, NA>>), LocStr(<<NX>>), NJ, <<>>, LocStr(<<NJ, NA>>),
     LocStr(<<NJ, NB>>)}

\* the absolute paths handed to contains and relative
AbsInputs ==
    {LocStr(l) : l \in Slots \cup {<<NX>>, <<NJ, NX>>}}
        \cup {LocStr(<<NJ, NA>>) \o <<SEP>>, LocStr(<<NJ, NA, DOTDOT, NB>>),
              LocStr(<<NJ, DOT, NA>>), <<SEP>>}

----------------------------------------------------------------------------
(* The state machine *)

NoJail == <<>>

NoRes == Ok(<<>>)

Idle == [p |-> <<>>, path |-> <<>>, swapped |-> FALSE, raced |-> FALSE]

\* the location an absolute canonical path spells
LocOf(s) == LET cs == Components(s) IN [i \in 1..(Len(cs) - 1) |-> cs[i + 1].n]

IsPrefix(a, b) == Len(a) <= Len(b) /\ SubSeq(b, 1, Len(a)) = a

Init ==
    /\ fs = [l \in {<<NJ>>, <<NJJ>>, <<NJJ, NA>>} |->
                 IF l = <<NJJ, NA>> THEN File ELSE Dir]
    /\ jail = NoJail
    /\ op = "init"
    /\ arg = <<>>
    /\ res = NoRes
    /\ pc = "idle"
    /\ pending = Idle

\* Jail::new(r); the model keeps one Jail
NewCall(r) ==
    /\ jail = NoJail
    /\ pc = "idle"
    /\ op' = "new"
    /\ arg' = r
    /\ res' = New(fs, r)
    /\ jail' = IF res'.ok THEN res'.val ELSE NoJail
    /\ pc' = "done"
    /\ UNCHANGED <<fs, pending>>

\* the tree after the object at loc is replaced by e (removed when e is None)
Replace(f, loc, e) ==
    IF e.kind = "none" THEN [l \in DOMAIN f \ {loc} |-> f[l]]
    ELSE [l \in DOMAIN f \cup {loc} |-> IF l = loc THEN e ELSE f[l]]

\* another process renames, unlinks, creates or links at loc; the root of
\* the Jail and the directories above it are left alone.  A result that has
\* been returned is taken by the caller first: a change cannot affect it
FsChange(loc, e) ==
    /\ pc # "done"
    /\ e # Entry(fs, loc)
    /\ Entry(fs, Front(loc)).kind = "dir"
    /\ \A l \in DOMAIN fs : ~(IsPrefix(loc, l) /\ l # loc)
    /\ jail # NoJail => ~IsPrefix(loc, LocOf(jail))
    /\ fs' = Replace(fs, loc, e)
    /\ op' = "fs"
    /\ arg' = <<>>
    /\ res' = NoRes
    /\ pending' = IF pc \notin {"open", "create"} THEN pending
                  ELSE [pending EXCEPT
                            !.raced = TRUE,
                            !.swapped = @ \/ (e.kind = "link" /\ LocStr(loc) = pending.path)]
    /\ UNCHANGED <<jail, pc>>

\* a join that creates the directory it resolved when it is missing
JoinCallCreating(p) ==
    /\ jail # NoJail
    /\ pc = "idle"
    /\ op' = "join"
    /\ arg' = p
    /\ res' = Join(fs, jail, p)
    /\ fs' = IF res'.ok /\ ~Exists(fs, res'.val) /\ IsDir(fs, Pop(res'.val))
             THEN Replace(fs, LocOf(res'.val), Dir) ELSE fs
    /\ pc' = "done"
    /\ UNCHANGED <<jail, pending>>

\* a join that keeps the path it resolved as the root of the Jail
JoinCallMovingRoot(p) ==
    /\ jail # NoJail
    /\ pc = "idle"
    /\ op' = "join"
    /\ arg' = p
    /\ res' = Join(fs, jail, p)
    /\ jail' = IF res'.ok THEN res'.val ELSE jail
    /\ pc' = "done"
    /\ UNCHANGED <<fs, pending>>

\* Jail::join(p)
JoinCall(p) ==
    /\ jail # NoJail
    /\ pc = "idle"
    /\ op' = "join"
    /\ arg' = p
    /\ res' = Join(fs, jail, p)
    /\ pc' = "done"
    /\ UNCHANGED <<fs, jail, pending>>

\* Jail::join_segments(ss)
JoinSegmentsCall(ss) ==
    /\ jail # NoJail
    /\ pc = "idle"
    /\ op' = "join_segments"
    /\ arg' = ss
    /\ res' = JoinSegments(fs, jail, ss)
    /\ pc' = "done"
    /\ UNCHANGED <<fs, jail, pending>>

\* Jail::relative(x)
RelativeCall(x) ==
    /\ jail # NoJail
    /\ pc = "idle"
    /\ op' = "relative"
    /\ arg' = x
    /\ res' = Relative(fs, jail, x)
    /\ pc' = "done"
    /\ UNCHANGED <<fs, jail, pending>>

\* Jail::contains(a)
ContainsCall(a) ==
    /\ jail # NoJail
    /\ pc = "idle"
    /\ op' = "contains"
    /\ arg' = a
    /\ res' = Contains(fs, jail, a)
    /\ pc' = "done"
    /\ UNCHANGED <<fs, jail, pending>>

\* the join step of Jail::open and Jail::create; an error returns at once
Resolve(what, p) ==
    /\ jail # NoJail
    /\ pc = "idle"
    /\ arg' = p
    /\ res' = Join(fs, jail, p)
    /\ IF res'.ok
       THEN /\ pc' = what
            /\ op' = "resolve"
            /\ pending' = [p |-> p, path |-> res'.val, swapped |-> FALSE, raced |-> FALSE]
       ELSE /\ pc' = "done"
            /\ op' = what
            /\ pending' = [Idle EXCEPT !.p = p]
    /\ UNCHANGED <<fs, jail>>

\* the open step of Jail::open
OpenFinish ==
    /\ pc = "open"
    /\ op' = "open"
    /\ arg' = pending.p
    /\ res' = OpenStep(fs, pending.path)
    /\ pc' = "done"
    /\ UNCHANGED <<fs, jail, pending>>

\* the open step of Jail::create
CreateFinish ==
    /\ pc = "create"
    /\ op' = "create"
    /\ arg' = pending.p
    /\ LET c == CreateStep(fs, pending.path)
       IN /\ res' = c.r
          /\ fs' = IF c.r.ok THEN Replace(fs, c.loc, File) ELSE fs
    /\ pc' = "done"
    /\ UNCHANGED <<jail, pending>>

\* the caller takes the result and is ready for its next call
Return ==
    /\ pc = "done"
    /\ pc' = "idle"
    /\ op' = "idle"
    /\ arg' = <<>>
    /\ res' = NoRes
    /\ pending' = Idle
    /\ UNCHANGED <<fs, jail>>

Environment == \E loc \in Mutable, e \in Entries : FsChange(loc, e)

Construct == \E r \in RootInputs : NewCall(r)

\* the caller holds a Jail and is between two calls
Ready == pc = "idle" /\ jail # NoJail

JoinCalls == Ready /\ \E p \in Inputs : JoinCall(p)

JoinSegmentsCalls == Ready /\ \E ss \in SegmentLists : JoinSegmentsCall(ss)

Next ==
    \/ Construct
    \/ Return
    \/ Environment
    \/ JoinCalls
    \/ JoinSegmentsCalls

Spec == Init /\ [][Next]_vars

\* Jail::open(p), first step
OpenCalls == Ready /\ \E p \in OpenInputs : Resolve("open", p)

\* Jail::create(p), first step
CreateCalls ==
    /\ Ready
    /\ Cardinality(DOMAIN fs \ Slots) < MaxCreated
    /\ \E p \in OpenInputs : Resolve("create", p)

NextOpen ==
    \/ Construct
    \/ Return
    \/ Environment
    \/ OpenCalls
    \/ OpenFinish
    \/ CreateCalls
    \/ CreateFinish

\* the hardened open layer, the environment acting between its two steps
SpecOpen == Init /\ [][NextOpen]_vars

\* the paths handed to contains: the absolute ones and a few relative ones
ContainsInputs == AbsInputs \cup {<<>>, NJ, NA, DOT, LocStr(<<NJ>>) \o <<NUL>>}

\* the paths handed to relative
RelativeInputs == Inputs \cup AbsInputs

\* the free function join(r, p), called by a caller that holds no Jail
JoinFnCall(r, p) ==
    /\ jail = NoJail
    /\ pc = "idle"
    /\ op' = "join_fn"
    /\ arg' = <<r, p>>
    /\ res' = JoinFn(fs, r, p)
    /\ pc' = "done"
    /\ UNCHANGED <<fs, jail, pending>>

ContainsCalls == Ready /\ \E a \in ContainsInputs : ContainsCall(a)

RelativeCalls == Ready /\ \E x \in RelativeInputs : RelativeCall(x)

JoinFnCalls ==
    /\ pc = "idle"
    /\ jail = NoJail
    /\ \E r \in RootInputs, p \in OpenInputs : JoinFnCall(r, p)

NextQuery ==
    \/ Construct
    \/ Return
    \/ Environment
    \/ ContainsCalls
    \/ RelativeCalls
    \/ JoinFnCalls

\* contains, relative and the free function join
SpecQuery == Init /\ [][NextQuery]_vars

\* #[derive(Clone)] on Jail: the clone holds a copy of the root
Clone(j) == j

\* Jail::join and Jail::relative on the short fragments
ShortJoinCalls == Ready /\ \E p \in OpenInputs : JoinCall(p)

ShortRelativeCalls == Ready /\ \E x \in OpenInputs \cup AbsInputs : RelativeCall(x)

NextAll ==
    \/ Construct
    \/ Return
    \/ Environment
    \/ ShortJoinCalls
    \/ JoinSegmentsCalls
    \/ ContainsCalls
    \/ ShortRelativeCalls
    \/ OpenCalls
    \/ OpenFinish
    \/ CreateCalls
    \/ CreateFinish

\* every operation of a Jail, in any order, the environment acting between
\* the calls
SpecAll == Init /\ [][NextAll]_vars

\* the names a fragment of the query-by-query join is made of
RacePieces == {NA, NB, DOT, DOTDOT}

\* the fragments handed to the query-by-query join: up to MaxRaceSegs names
\* joined by separators, the empty fragment, an absolute one and one with a
\* null byte
RaceInputs ==
    {Flatten(ps, <<SEP>>) : ps \in UNION {[1..n -> RacePieces] : n \in 1..MaxRaceSegs}}
        \cup {<<>>, LocStr(<<NA>>), <<NUL>>}

\* a call of Jail::join in progress: the input, the cursor `current` and the
\* components the loop has not taken yet
InJoin(p, cur, rest) == [p |-> p, cur |-> cur, rest |-> rest]

\* Jail::join returns r
JoinReturns(r) ==
    /\ op' = "join_steps"
    /\ arg' = pending.p
    /\ res' = r
    /\ pc' = "done"
    /\ UNCHANGED <<fs, jail, pending>>

\* Jail::join goes on at the position at with the cursor cur and the
\* components rest left
JoinGoesOn(at, cur, rest) ==
    /\ op' = "joining"
    /\ arg' = pending.p
    /\ res' = NoRes
    /\ pc' = at
    /\ pending' = InJoin(pending.p, cur, rest)
    /\ UNCHANGED <<fs, jail>>

\* Jail::join(p) up to the start of its loop: the two tests of the input
JoinBegin(p) ==
    /\ jail # NoJail
    /\ pc = "idle"
    /\ arg' = p
    /\ IF StrContains(p, NUL) \/ IsAbsolute(p)
       THEN /\ res' = InvalidPath(IF StrContains(p, NUL) THEN "null bytes not allowed"
                                  ELSE "absolute paths not allowed")
            /\ op' = "join_steps"
            /\ pc' = "done"
            /\ pending' = InJoin(p, jail, <<>>)
       ELSE /\ res' = NoRes
            /\ op' = "joining"
            /\ pc' = "component"
            /\ pending' = InJoin(p, jail, Components(p))
    /\ UNCHANGED <<fs, jail>>

\* the loop of Jail::join takes its next component, up to and including the
\* query current.exists(); with no component left join returns Ok(current)
JoinComponent ==
    /\ pc = "component"
    /\ IF pending.rest = <<>> THEN JoinReturns(Ok(pending.cur))
       ELSE LET component == Head(pending.rest)
                current == IF component.k = "Normal" THEN Push(pending.cur, component.n)
                           ELSE Pop(pending.cur)
            IN CASE component.k = "CurDir" ->
                        JoinGoesOn("component", pending.cur, Tail(pending.rest))
                 [] component.k = "RootDir" ->
                        JoinReturns(InvalidPath("absolute components not allowed"))
                 [] component.k = "ParentDir" /\ ~StartsWith(current, jail) ->
                        JoinReturns(EscapedRoot(pending.p, jail))
                 [] OTHER ->
                        JoinGoesOn(IF Exists(fs, current) THEN "verify" ELSE "symlink",
                                   current, pending.rest)

\* current.exists() was true: verify_inside(current), one canonicalize query
JoinVerify ==
    /\ pc = "verify"
    /\ IF VerifyInside(fs, jail, pending.cur).ok
       THEN JoinGoesOn("component", VerifyInside(fs, jail, pending.cur).val,
                       Tail(pending.rest))
       ELSE JoinReturns(VerifyInside(fs, jail, pending.cur))

\* current.exists() was false: the query current.is_symlink()
JoinSymlink ==
    /\ pc = "symlink"
    /\ IF IsSymlink(fs, pending.cur) THEN JoinReturns(BrokenSymlink(pending.cur))
       ELSE JoinGoesOn("component", pending.cur, Tail(pending.rest))

JoinBegins == Ready /\ \E p \in RaceInputs : JoinBegin(p)

\* a step of the thread that is inside Jail::join
JoinRuns == JoinComponent \/ JoinVerify \/ JoinSymlink

NextRace ==
    \/ Construct
    \/ Return
    \/ Environment
    \/ JoinBegins
    \/ JoinComponent
    \/ JoinVerify
    \/ JoinSymlink

\* Jail::join query by query, the environment acting between the queries
SpecRace == Init /\ [][NextRace]_vars

----------------------------------------------------------------------------
(* Vocabulary of the properties *)

\* the names a path string spells, separators and empty pieces dropped
NamesOf(s) == SelectSeq(Split(s), LAMBDA n : n # <<>>)

\* p lies under base, name by name, and spells no "." or ".."
Inside(p, base) ==
    /\ IsPrefix(NamesOf(base), NamesOf(p))
    /\ \A i \in 1..Len(NamesOf(p)) : NamesOf(p)[i] \notin {DOT, DOTDOT}

\* a call of join has returned and the filesystem is as the call saw it
Joined == pc = "done" /\ op = "join"

RECURSIVE Target(_, _, _, _)
\* where the pieces ps lead from the location cur when every symbolic link
\* is followed and ".." is applied, whether or not the names exist; "loop"
\* when the links never end
Target(f, cur, ps, hops) ==
    IF ps = <<>> THEN [def |-> TRUE, loc |-> cur]
    ELSE LET p == Head(ps)
             rest == Tail(ps)
         IN IF p = <<>> \/ p = DOT THEN Target(f, cur, rest, hops)
            ELSE IF p = DOTDOT
                 THEN Target(f, IF cur = <<>> THEN cur ELSE Front(cur), rest, hops)
            ELSE IF Entry(f, Append(cur, p)).kind = "link"
                 THEN IF hops = 0 THEN [def |-> FALSE, loc |-> <<>>]
                      ELSE Target(f, <<>>, Entry(f, Append(cur, p)).target \o rest, hops - 1)
            ELSE Target(f, Append(cur, p), rest, hops)

\* the resolved target of the fragment p in the jail at root
ResolvedTarget(f, root, p) == Target(f, NamesOf(root), Split(p), MaxHops)

\* s is a symbolic link whose target does not exist
IsBroken(f, s) == IsSymlink(f, s) /\ ~Exists(f, s)

----------------------------------------------------------------------------
(* Properties *)

\* C1: whenever join or join_segments (and so join_typed and segments, which
\* wrap their results unchanged) succeeds, the returned path has the root
\* of the jail as a component-wise prefix
C1_JoinInsideRoot ==
    (pc = "done" /\ op \in {"join", "join_segments"} /\ res.ok)
        => Inside(res.val, jail)

\* C1 witness: a join that went through a symbolic link into the jail
C1_Witness ==
    /\ Joined /\ res.ok
    /\ IsSymlink(fs, Push(jail, arg))
    /\ res.val # Push(jail, arg)

\* C2 as stated: a relative fragment whose resolved target lies outside the
\* root makes join fail with EscapedRoot
C2_Original ==
    (/\ Joined
     /\ ~IsAbsolute(arg) /\ ~StrContains(arg, NUL)
     /\ ResolvedTarget(fs, jail, arg).def
     /\ ~IsPrefix(NamesOf(jail), ResolvedTarget(fs, jail, arg).loc))
        => (~res.ok /\ res.kind = "EscapedRoot")

\* C2 amended: a relative fragment whose resolved target lies outside the
\* root makes join fail, with EscapedRoot, or with BrokenSymlink when the
\* walk has met a symbolic link whose target does not exist
C2_EscapeRejected ==
    (/\ Joined
     /\ ~IsAbsolute(arg) /\ ~StrContains(arg, NUL)
     /\ ResolvedTarget(fs, jail, arg).def
     /\ ~IsPrefix(NamesOf(jail), ResolvedTarget(fs, jail, arg).loc))
        => /\ ~res.ok
           /\ res.kind \in {"EscapedRoot", "BrokenSymlink"}
           /\ res.kind = "BrokenSymlink" => IsBroken(fs, res.val)

\* C2 witness: a symbolic link to an existing directory outside the root
\* is refused with EscapedRoot
C2_Witness ==
    /\ Joined
    /\ \E i \in 1..Len(Split(arg)) :
           /\ Split(arg)[i] \notin {<<>>, DOT, DOTDOT}
           /\ Entry(fs, Append(NamesOf(jail), Split(arg)[i])).kind = "link"
    /\ ResolvedTarget(fs, jail, arg).def
    /\ ~IsPrefix(NamesOf(jail), ResolvedTarget(fs, jail, arg).loc)
    /\ res.kind = "EscapedRoot"

\* C3: when the walk of join arrives, with the next name of the fragment,
\* at a symbolic link whose target does not exist (inside or outside the
\* root, or a loop of links), join fails with BrokenSymlink carrying the path
\* of that link
C3_BrokenSymlinkRejected ==
    (Joined /\ ~IsAbsolute(arg) /\ ~StrContains(arg, NUL))
        => \A i \in 1..Len(Components(arg)) :
               LET cs == Components(arg)
                   before == Join(fs, jail, FromComponents(SubSeq(cs, 1, i - 1)))
               IN (/\ cs[i].k = "Normal"
                   /\ before.ok
                   /\ IsBroken(fs, Push(before.val, cs[i].n)))
                      => res = [BrokenSymlink(Push(before.val, cs[i].n))
                                    EXCEPT !.queries = res.queries, !.joined = TRUE]

\* C3 witness: the broken link is met below a link into the jail and points
\* to a missing path outside the root
C3_Witness ==
    /\ Joined
    /\ res.kind = "BrokenSymlink"
    /\ res.val # Push(jail, arg)
    /\ res.queries > 2
    /\ Entry(fs, Stat(fs, res.val, FALSE).loc).target = <<NX>>

\* C4: an absolute fragment makes join fail with InvalidPath (reason
\* "absolute paths not allowed" unless a null byte is found first), in every
\* filesystem state and without any filesystem query
C4_AbsoluteRejected ==
    (Joined /\ Len(arg) > 0 /\ Head(arg) = SEP)
        => /\ ~res.ok
           /\ res.kind = "InvalidPath"
           /\ res.queries = 0
           /\ ~StrContains(arg, NUL) => res.msg = "absolute paths not allowed"

\* C4 witness: an absolute fragment naming an existing object of the jail
C4_Witness ==
    /\ Joined
    /\ arg = <<SEP>> \o NA
    /\ Entry(fs, <<NJ, NA>>).kind = "file"
    /\ res.kind = "InvalidPath"

\* C5: a fragment with a null byte makes join fail with InvalidPath, reason
\* "null bytes not allowed", also when the fragment is absolute, and without
\* any filesystem query
C5_NullByteRejected ==
    (Joined /\ \E i \in 1..Len(arg) : arg[i] = NUL)
        => /\ ~res.ok
           /\ res.kind = "InvalidPath"
           /\ res.msg = "null bytes not allowed"
           /\ res.queries = 0

\* C5 witness: an absolute fragment with a null byte
C5_Witness ==
    /\ Joined
    /\ arg = <<SEP, NUL>>
    /\ res.msg = "null bytes not allowed"

\* C6: inverse law: when join(p) succeeds with a path q that exists,
\* relative(q) succeeds with a relative path r, and join(r) succeeds and
\* returns exactly q, the filesystem being the same for the three calls
C6_InverseLaw ==
    (Joined /\ res.ok /\ Exists(fs, res.val))
        => LET r == Relative(fs, jail, res.val)
           IN /\ r.ok
              /\ ~IsAbsolute(r.val)
              /\ Join(fs, jail, r.val).ok
              /\ Join(fs, jail, r.val).val = res.val

\* C6 witness: q exists, is not the root, and was reached through a link
C6_Witness ==
    /\ Joined /\ res.ok /\ Exists(fs, res.val)
    /\ res.val # jail
    /\ res.val # Push(jail, arg)
    /\ Relative(fs, jail, res.val).val # arg
    /\ Relative(fs, jail, res.val).val # <<>>

\* a segment that join_segments must refuse
BadSegment(seg) ==
    \/ \E i \in 1..Len(seg) : seg[i] \in {SEP, BSL, NUL}
    \/ seg = DOTDOT

\* C7: segment safety: join_segments fails with InvalidPath whenever some
\* segment contains '/', a backslash or a null byte, or is "..", whatever
\* the other segments and the filesystem are; join is not invoked and no
\* filesystem query is made
C7_SegmentSafety ==
    (/\ pc = "done" /\ op = "join_segments"
     /\ \E i \in 1..Len(arg) : BadSegment(arg[i]))
        => /\ ~res.ok
           /\ res.kind = "InvalidPath"
           /\ ~res.joined
           /\ res.queries = 0

\* C7 witness: a good segment naming an existing object, then a backslash
C7_Witness ==
    /\ pc = "done" /\ op = "join_segments"
    /\ arg = <<NA, <<BSL>>>>
    /\ Exists(fs, Push(jail, NA))
    /\ res.kind = "InvalidPath"

\* C8: Jail::new fails with InvalidRoot (carrying the canonical path) when the
\* canonical form of its argument has no parent or is not a directory; a
\* constructed Jail has the canonical form as root, which is absolute, has a
\* parent and is a directory when the constructor returns
C8_RootValidated ==
    /\ (pc = "done" /\ op = "new")
           => LET c == Canonicalize(fs, arg)
              IN /\ (c.ok /\ (NamesOf(c.val) = <<>>
                               \/ Entry(fs, NamesOf(c.val)).kind # "dir"))
                        => res = InvalidRoot(c.val)
                 /\ res.ok => (/\ c.ok /\ jail = c.val /\ res.val = c.val
                               /\ Entry(fs, NamesOf(jail)).kind = "dir")
                 /\ ~res.ok => jail = NoJail
    /\ jail # NoJail => (Head(jail) = SEP /\ NamesOf(jail) # <<>>)

\* C8 witness: the filesystem root spelled "//" is refused
C8_Witness ==
    /\ pc = "done" /\ op = "new"
    /\ arg = <<SEP, SEP>>
    /\ res = InvalidRoot(<<SEP>>)

\* the open step of Jail::open has run on the path its join step returned
Opened == pc = "done" /\ op = "open" /\ pending.path # <<>>

\* C9: when the last component of the path that the join step of Jail::open
\* returned is a symbolic link at the time of the open step (an attacker put
\* it there in between), the open step fails; a handle that Jail::open
\* returns is the object at that path itself, never one reached by following
\* a link at the last component
C9_FinalComponentNotFollowed ==
    Opened
        => /\ IsSymlink(fs, pending.path) => (~res.ok /\ res.kind = "Io")
           /\ res.ok => (/\ Stat(fs, pending.path, FALSE).ok
                         /\ res.val = LocStr(Stat(fs, pending.path, FALSE).loc)
                         /\ Entry(fs, Stat(fs, pending.path, FALSE).loc).kind # "link")

\* C9 witness: a file was resolved, then swapped for a link to the directory
\* outside the root, and the open step failed with ELOOP
C9_Witness ==
    /\ Opened
    /\ pending.swapped
    /\ Entry(fs, NamesOf(pending.path)) = Link(<<NJJ>>)
    /\ res = Io(ELOOP)

\* the target named by the fragment p exists or is a symbolic link
Occupied(f, s) == Exists(f, s) \/ IsSymlink(f, s)

\* C10, in one state: a create that succeeded without any change of the
\* filesystem during the call named a target that, before the call, neither
\* existed nor was a symbolic link
C10_Unoccupied ==
    (pc = "done" /\ op = "create" /\ res.ok /\ ~pending.raced)
        => ~Occupied(Replace(fs, NamesOf(res.val), None), Push(jail, arg))

\* C10, in one step: the open step of create fails and changes nothing when
\* its path exists or is a symbolic link, and succeeds only by adding one
\* regular file where there was nothing, which is the handle it returns
C10_Exclusive ==
    (pc = "create" /\ pc' = "done")
        => /\ Occupied(fs, pending.path) => (~res'.ok /\ fs' = fs)
           /\ ~res'.ok => fs' = fs
           /\ res'.ok => (/\ Entry(fs, NamesOf(res'.val)).kind = "none"
                          /\ ~Occupied(fs, pending.path)
                          /\ fs' = Replace(fs, NamesOf(res'.val), File))

\* C10: Jail::create(p) fails whenever the target named by p already exists
\* or is a symbolic link (broken, pointing inside the jail or outside it),
\* and succeeds only by creating a file that did not exist
C10_CreateExclusive == [](C10_Unoccupied) /\ [][C10_Exclusive]_vars

\* C10 witness: create fails on an existing file, at its open step
C10_Witness ==
    /\ pc = "done" /\ op = "create"
    /\ pending.path # <<>>
    /\ ~pending.raced
    /\ Entry(fs, NamesOf(pending.path)).kind = "file"
    /\ res = Io(EEXIST)

\* C11 as stated: Jail::open(p) returns an error whenever the file named by
\* p is a symbolic link, the filesystem being unchanged during the call
C11_SymlinkRefused ==
    (pc = "done" /\ op = "open" /\ ~pending.raced /\ IsSymlink(fs, Push(jail, arg)))
        => ~res.ok

\* the canonical form of an existing path
Canonical(f, s) == Canonicalize(f, s).val

\* C12: contains(a) fails with InvalidPath when a is not absolute; for an
\* absolute a that exists it returns the canonical form of a when that form
\* has the root as component-wise prefix and fails with EscapedRoot
\* otherwise; for an absolute a that does not exist it fails with Io
C12_ContainsDecides ==
    (pc = "done" /\ op = "contains") =>
        IF ~IsAbsolute(arg) THEN ~res.ok /\ res.kind = "InvalidPath"
        ELSE IF Exists(fs, arg)
        THEN IF IsPrefix(NamesOf(jail), NamesOf(Canonical(fs, arg)))
             THEN res.ok /\ res.val = Canonical(fs, arg)
             ELSE ~res.ok /\ res.kind = "EscapedRoot"
        ELSE ~res.ok /\ res.kind = "Io"

C12_Witness ==
    /\ pc = "done" /\ op = "contains"
    /\ IsAbsolute(arg) /\ Exists(fs, arg)
    /\ res.ok /\ res.val # arg

\* C13: relative(x) for a relative x succeeds exactly when join(x) succeeds,
\* fails as join(x) fails, and returns what join(x) returns with the root
\* prefix stripped; for an absolute x it succeeds exactly when x exists and
\* its canonical form is inside the root (a missing x fails with Io even
\* when it is spelled inside the root); the result is a relative path with
\* no "." and no ".." component
C13_RelativeStripsRoot ==
    (pc = "done" /\ op = "relative") =>
        /\ ~IsAbsolute(arg) =>
              LET j == Join(fs, jail, arg)
              IN /\ res.ok = j.ok
                 /\ ~j.ok => res = j
                 /\ j.ok => Components(j.val) = Components(jail) \o Components(res.val)
        /\ IsAbsolute(arg) =>
              /\ res.ok = (Exists(fs, arg) /\ IsPrefix(NamesOf(jail), NamesOf(Canonical(fs, arg))))
              /\ res.ok => Components(Canonical(fs, arg)) = Components(jail) \o Components(res.val)
              /\ ~Exists(fs, arg) => res.kind = "Io"
        /\ res.ok =>
              /\ ~IsAbsolute(res.val)
              /\ \A i \in 1..Len(Split(res.val)) : Split(res.val)[i] \notin {DOT, DOTDOT}

\* a relative x that does not exist and spells ".." resolves to a path
\* below the root, returned without the root
C13_Witness ==
    /\ pc = "done" /\ op = "relative"
    /\ ~IsAbsolute(arg) /\ ~Exists(fs, Push(jail, arg))
    /\ \E i \in 1..Len(Split(arg)) : Split(arg)[i] = DOTDOT
    /\ res.ok /\ res.val # <<>>

\* an absolute x spelled inside the root that does not exist is refused
C13_WitnessAbsent ==
    /\ pc = "done" /\ op = "relative"
    /\ IsAbsolute(arg) /\ IsPrefix(NamesOf(jail), NamesOf(arg))
    /\ ~Exists(fs, arg) /\ ~res.ok

\* the state of the loop of join(arg) before it processes its i-th component
CursorBefore(i) ==
    JoinFrom(fs, jail, arg, Walking(jail, 0), SubSeq(Components(arg), 1, i - 1))

\* the i-th component of arg is a ".." the loop reaches, and popping the
\* cursor there leaves a path that no longer has the root as prefix
PopsAboveRoot(i) ==
    /\ Components(arg)[i].k = "ParentDir"
    /\ ~CursorBefore(i).done
    /\ ~IsPrefix(NamesOf(jail), NamesOf(Pop(CursorBefore(i).cur)))

\* C14: when processing a ".." pops the cursor above the root, join(p) fails
\* with EscapedRoot whose attempted field is the input p as given and whose
\* root field is the root of the Jail
C14_ParentEscapeReported ==
    (Joined /\ ~StrContains(arg, NUL) /\ ~IsAbsolute(arg)
        /\ \E i \in 1..Len(Components(arg)) : PopsAboveRoot(i))
        => res = Asked(EscapedRoot(arg, jail), res.queries)

\* more ".." than names before them: the pop that escapes is not the first
\* component
C14_Witness ==
    /\ Joined /\ ~StrContains(arg, NUL) /\ ~IsAbsolute(arg)
    /\ \E i \in 2..Len(Components(arg)) :
          PopsAboveRoot(i) /\ Components(arg)[1].k = "Normal"
    /\ res.kind = "EscapedRoot" /\ res.val = arg /\ res.root = jail

\* no name below the root of the Jail is a symbolic link
NoSymlinks == \A l \in DOMAIN fs : IsPrefix(LocOf(jail), l) => fs[l].kind # "link"

RECURSIVE Normalize(_, _)
\* the lexical normalization of the names ns onto the names kept so far:
\* "." is dropped, ".." cancels the name before it and fails when there is
\* none
Normalize(ns, kept) ==
    IF ns = <<>> THEN [ok |-> TRUE, names |-> kept]
    ELSE IF Head(ns) = DOT THEN Normalize(Tail(ns), kept)
    ELSE IF Head(ns) = DOTDOT
    THEN IF kept = <<>> THEN [ok |-> FALSE, names |-> <<>>]
         ELSE Normalize(Tail(ns), Front(kept))
    ELSE Normalize(Tail(ns), Append(kept, Head(ns)))

\* the path spelling the names ns below base
Below(base, ns) == base \o Flatten([i \in 1..Len(ns) |-> <<SEP>> \o ns[i]], <<>>)

\* C15: where no name below the root is a symlink, join(p) of a relative
\* null-free p is the root followed by the lexical normalization of p,
\* whether or not the names exist, and fails with EscapedRoot exactly when
\* the normalization rises above the root
C15_LexicalWithoutSymlinks ==
    (Joined /\ ~StrContains(arg, NUL) /\ ~IsAbsolute(arg) /\ NoSymlinks) =>
        LET n == Normalize(NamesOf(arg), <<>>)
        IN IF n.ok THEN res.ok /\ res.val = Below(jail, n.names)
           ELSE ~res.ok /\ res.kind = "EscapedRoot"

\* a name is cancelled by ".." and nothing of the result exists
C15_Witness ==
    /\ Joined /\ ~StrContains(arg, NUL) /\ ~IsAbsolute(arg) /\ NoSymlinks
    /\ \E i \in 2..Len(NamesOf(arg)) : NamesOf(arg)[i] = DOTDOT
    /\ res.ok /\ res.val # jail /\ ~Exists(fs, res.val)

\* s with t inserted after its first i characters
InsertAt(s, i, t) == SubSeq(s, 1, i) \o t \o SubSeq(s, i + 1, Len(s))

\* the positions of s after which a component starts: the start of a
\* relative s and every separator
ComponentStarts(s) ==
    (IF IsAbsolute(s) THEN {} ELSE {0}) \cup {i \in 1..Len(s) : s[i] = SEP}

\* s with one "." component inserted, in front of a component or at the end
WithDot(s) ==
    {InsertAt(s, i, <<".", SEP>>) : i \in ComponentStarts(s)}
        \cup (IF s = <<>> THEN {DOT} ELSE {s \o <<SEP, ".">>})

\* s with one of its separators duplicated
WithDoubledSeparator(s) == {InsertAt(s, i, <<SEP>>) : i \in {k \in 1..Len(s) : s[k] = SEP}}

\* s with a separator appended after its last component
WithTrailingSeparator(s) == IF s = <<>> THEN {} ELSE {s \o <<SEP>>}

\* two results are the same path or the same kind of error
SameOutcome(r, q) == r.ok = q.ok /\ r.kind = q.kind /\ (r.ok => r.val = q.val)

\* C16: join of the empty input returns exactly the root, and join(p) has the
\* same outcome (same path or same error kind) as join of p with a "."
\* component inserted, with a separator duplicated, or with a separator
\* appended after its last component
C16_NoOpSyntax ==
    Joined =>
        /\ arg = <<>> => res.ok /\ res.val = jail
        /\ \A v \in WithDot(arg) \cup WithDoubledSeparator(arg) \cup WithTrailingSeparator(arg) :
              SameOutcome(Join(fs, jail, v), res)

\* a two-component input whose first name resolves through the filesystem
C16_Witness ==
    /\ Joined /\ res.ok /\ res.val # jail
    /\ Len(Components(arg)) = 2 /\ WithDoubledSeparator(arg) # {}
    /\ Exists(fs, res.val)
    /\ \A v \in WithDot(arg) \cup WithDoubledSeparator(arg) \cup WithTrailingSeparator(arg) :
          Join(fs, jail, v).val = res.val

\* what a call of the operation o with input a returns on the Jail j
\* (open and create: what their resolve step returns)
CallOn(j, o, a) ==
    CASE o = "join_segments" -> JoinSegments(fs, j, a)
      [] o = "contains" -> Contains(fs, j, a)
      [] o = "relative" -> Relative(fs, j, a)
      [] OTHER -> Join(fs, j, a)

\* a step in which the caller of a constructed Jail makes a call
Calls == jail # NoJail /\ pc = "idle" /\ pc' # "idle"

\* every step leaves the root of a constructed Jail as it is, and a call
\* returns what the same call on a clone of the Jail returns
C17_RootKept ==
    /\ jail # NoJail => jail' = jail
    /\ Calls => res' = CallOn(Clone(jail'), op', arg')

\* C17: after any sequence of join, join_segments, contains, relative, open
\* and create calls, successful or failing, the root of the Jail is
\* unchanged, and a clone of the Jail returns the same result for every
\* operation and input in the same filesystem state
C17_RootImmutable == [][C17_RootKept]_vars

\* a create has succeeded and a later call fails: the root is still the one
\* the constructor returned
C17_Witness ==
    /\ jail # NoJail /\ pc = "done" /\ ~res.ok
    /\ op \in {"join", "join_segments", "contains", "relative", "open"}
    /\ DOMAIN fs \ Slots # {}

\* a step that is a whole call of join, join_segments, contains or relative,
\* or the resolve step of open or create returning an error
Validates ==
    /\ pc = "idle" /\ pc' = "done"
    /\ op' \in {"join", "join_segments", "contains", "relative", "open", "create"}

C19_FsKept == Validates => fs' = fs

\* C19: join, join_segments, contains and relative never create, delete or
\* modify a filesystem object, whether they succeed or fail, and an open or
\* create rejected at its resolve step leaves the filesystem unchanged
C19_ValidationPure == [][C19_FsKept]_vars

\* a join has returned a path that does not exist, and it still does not
C19_Witness ==
    /\ pc = "done" /\ op = "join" /\ res.ok
    /\ ~Exists(fs, res.val) /\ IsDir(fs, Pop(res.val))

\* C18: the free function join(root, path) returns what Jail::new(root)
\* followed by Jail::join(path) returns: the error of the constructor
\* (InvalidRoot or Io) when the root is invalid, whatever the path, and
\* otherwise the result of join on the constructed Jail, absolute paths and
\* traversal above the root rejected
C18_FreeJoinIsNewThenJoin ==
    (pc = "done" /\ op = "join_fn") =>
        LET j == New(fs, arg[1])
        IN /\ ~j.ok => res = j /\ res.kind \in {"InvalidRoot", "Io"}
           /\ j.ok =>
                 /\ res = Join(fs, j.val, arg[2])
                 /\ (IsAbsolute(arg[2]) /\ ~StrContains(arg[2], NUL))
                        => res.kind = "InvalidPath"
                 /\ (~IsAbsolute(arg[2]) /\ ~StrContains(arg[2], NUL)
                        /\ Normalize(NamesOf(arg[2]), <<>>).ok = FALSE
                        /\ NamesOf(arg[2])[1] = DOTDOT)
                        => res.kind = "EscapedRoot"

\* an invalid root together with an absolute path: the constructor's error
C18_Witness ==
    /\ pc = "done" /\ op = "join_fn"
    /\ ~New(fs, arg[1]).ok /\ IsAbsolute(arg[2])
    /\ res.kind \in {"InvalidRoot", "Io"}

\* a valid root: the path is resolved below its canonical form
C18_WitnessResolved ==
    /\ pc = "done" /\ op = "join_fn"
    /\ New(fs, arg[1]).ok /\ New(fs, arg[1]).val # arg[1]
    /\ res.ok /\ res.val # New(fs, arg[1]).val

\* the canonical path c begins with the characters of the root but is not
\* below the root: a sibling whose name the root's last name begins
LooksInside(c) == IsPrefix(jail, c) /\ ~IsPrefix(NamesOf(jail), NamesOf(c))

\* the first component of arg is a name below the root that is a symlink to
\* an existing such sibling
ThroughLookAlike ==
    /\ ~StrContains(arg, NUL) /\ ~IsAbsolute(arg)
    /\ Components(arg) # <<>> /\ Components(arg)[1].k = "Normal"
    /\ LET link == Push(jail, Components(arg)[1].n)
       IN /\ IsSymlink(fs, link) /\ Exists(fs, link)
          /\ LooksInside(Canonical(fs, link))

\* C20: containment is decided component by component: join through a name
\* that is a symlink to an existing sibling of the root whose name begins
\* with the root's last name fails with EscapedRoot, and contains of an
\* existing path below such a sibling fails with EscapedRoot
C20_ComponentWise ==
    /\ (Joined /\ ThroughLookAlike) => ~res.ok /\ res.kind = "EscapedRoot"
    /\ (pc = "done" /\ op = "contains" /\ IsAbsolute(arg) /\ Exists(fs, arg)
            /\ LooksInside(Canonical(fs, arg)))
          => ~res.ok /\ res.kind = "EscapedRoot"

C20_Witness == Joined /\ ThroughLookAlike /\ res.kind = "EscapedRoot"

\* contains of a file in the sibling
C20_WitnessContains ==
    /\ pc = "done" /\ op = "contains" /\ IsAbsolute(arg) /\ Exists(fs, arg)
    /\ LooksInside(Canonical(fs, arg)) /\ Canonical(fs, arg) # LocStr(<<NJJ>>)
    /\ res.kind = "EscapedRoot"

\* the directories of the path s strictly between the root of the Jail and
\* the last name of s
Intermediate(s) ==
    {SubSeq(NamesOf(s), 1, n) : n \in (Len(NamesOf(jail)) + 1)..(Len(NamesOf(s)) - 1)}

\* a directory outside the root of the Jail
OutsideDir(loc) == Entry(fs, loc).kind = "dir" /\ ~IsPrefix(NamesOf(jail), loc)

\* at the open step an intermediate directory of the resolved path is a
\* symbolic link to a directory outside the root (the resolved path was
\* canonical, so the link was put there after the resolve step), and the
\* rest of the path names an object there that is not a link
IntermediateSwapped ==
    /\ Opened
    /\ \E d \in Intermediate(pending.path) :
          Entry(fs, d).kind = "link" /\ OutsideDir(Entry(fs, d).target)
    /\ Stat(fs, pending.path, FALSE).ok
    /\ Entry(fs, Stat(fs, pending.path, FALSE).loc).kind # "link"

\* C21: the hardened open does not defend intermediate components: when,
\* after a successful resolve step, an intermediate directory of the resolved
\* path has been replaced by a symlink to a directory outside the root, the
\* open step succeeds and returns a handle to an object outside the root
C21_IntermediateUndefended ==
    IntermediateSwapped
        => res.ok /\ ~IsPrefix(NamesOf(jail), NamesOf(res.val))

\* the interleaving exists: the handle is the file /jj/a outside the root
C21_Witness ==
    /\ IntermediateSwapped
    /\ pending.raced
    /\ res.ok /\ res.val = LocStr(<<NJJ, NA>>)
    /\ Entry(fs, <<NJJ, NA>>).kind = "file"

\* the path spelling the first n names of s
PrefixOf(s, n) == LocStr(SubSeq(NamesOf(s), 1, n))

\* s is an existing path that is its own canonical form
ExistingCanonical(s) == Exists(fs, s) /\ Canonical(fs, s) = s

\* s has the root as prefix and is an existing canonical path, or an
\* existing canonical prefix followed only by names that neither exist nor
\* are symbolic links
CursorShape(s) ==
    /\ s = LocStr(NamesOf(s))
    /\ IsPrefix(NamesOf(jail), NamesOf(s))
    /\ \E k \in Len(NamesOf(jail))..Len(NamesOf(s)) :
          /\ ExistingCanonical(PrefixOf(s, k))
          /\ \A m \in (k + 1)..Len(NamesOf(s)) :
                ~Exists(fs, PrefixOf(s, m)) /\ ~IsSymlink(fs, PrefixOf(s, m))

\* the loop of join(arg) returns while processing its i-th component
ReturnsAt(i) == ~CursorBefore(i).done /\ CursorBefore(i + 1).done

\* C22: with the filesystem unchanged during a join call, after every
\* processed component the cursor has the root as prefix and is an existing
\* canonical path or an existing canonical prefix followed only by
\* non-existent, non-symlink names; the popped cursor of a ".." is never a
\* broken symlink, and BrokenSymlink is only returned at a Normal component
C22_CursorInvariant ==
    (Joined /\ ~StrContains(arg, NUL) /\ ~IsAbsolute(arg)) =>
        /\ \A i \in 1..(Len(Components(arg)) + 1) :
              ~CursorBefore(i).done => CursorShape(CursorBefore(i).cur)
        /\ \A i \in 1..Len(Components(arg)) :
              (Components(arg)[i].k = "ParentDir" /\ ~CursorBefore(i).done)
                  => ~IsBroken(fs, Pop(CursorBefore(i).cur))
        /\ res.kind = "BrokenSymlink" =>
              \E i \in 1..Len(Components(arg)) :
                  ReturnsAt(i) /\ Components(arg)[i].k = "Normal"

\* a name that resolved through a symlink is followed by a ".." and by a
\* name that does not exist
C22_Witness ==
    /\ Joined /\ ~StrContains(arg, NUL) /\ ~IsAbsolute(arg) /\ res.ok
    /\ Len(Components(arg)) = 3
    /\ Components(arg)[1].k = "Normal" /\ Components(arg)[2].k = "ParentDir"
    /\ IsSymlink(fs, Push(jail, Components(arg)[1].n))
    /\ ~Exists(fs, res.val)

\* BrokenSymlink returned at a Normal component that follows a ".."
C22_WitnessBroken ==
    /\ Joined /\ res.kind = "BrokenSymlink"
    /\ \E i \in 2..Len(Components(arg)) : Components(arg)[i - 1].k = "ParentDir" /\ ReturnsAt(i)

\* the first component of arg is a name below the root that is a symlink to
\* an existing object inside the Jail
ThroughInternalLink ==
    /\ ~StrContains(arg, NUL) /\ ~IsAbsolute(arg)
    /\ Components(arg) # <<>> /\ Components(arg)[1].k = "Normal"
    /\ LET link == Push(jail, Components(arg)[1].n)
       IN /\ IsSymlink(fs, link) /\ Exists(fs, link)
          /\ IsPrefix(NamesOf(jail), NamesOf(Canonical(fs, link)))

\* the canonical path of the object the first component of arg links to
LinkTarget == Canonical(fs, Push(jail, Components(arg)[1].n))

\* C23: with the filesystem unchanged, a path that join returns and that
\* exists is its own canonical form, none of its components a symlink;
\* joining a name that is a symlink to an existing object inside the jail
\* returns the path of the target, and a ".." after it is applied to the
\* physical parent of the target
C23_JoinCanonical ==
    Joined =>
        /\ (res.ok /\ Exists(fs, res.val)) =>
              /\ Canonical(fs, res.val) = res.val
              /\ \A n \in 1..Len(NamesOf(res.val)) : ~IsSymlink(fs, PrefixOf(res.val, n))
        /\ (ThroughInternalLink /\ Len(Components(arg)) = 1) =>
              /\ res.ok /\ res.val = LinkTarget
              /\ res.val # Push(jail, Components(arg)[1].n)
        /\ (ThroughInternalLink /\ Len(Components(arg)) = 2
                /\ Components(arg)[2].k = "ParentDir") =>
              IF IsPrefix(NamesOf(jail), NamesOf(Pop(LinkTarget)))
              THEN res.ok /\ res.val = Pop(LinkTarget)
              ELSE res.kind = "EscapedRoot"

\* a ".." after a link lands in the parent of the target, which is not the
\* directory the link is in
C23_Witness ==
    /\ Joined /\ ThroughInternalLink
    /\ Len(Components(arg)) = 2 /\ Components(arg)[2].k = "ParentDir"
    /\ res.ok /\ res.val = Pop(LinkTarget) /\ res.val # jail

\* the path the kernel is given for the first i components of arg
PrefixPath(i) == Push(jail, FromComponents(SubSeq(Components(arg), 1, i)))

\* the first i components of arg resolve to an existing location outside
\* the root
ResolvesOutside(i) ==
    /\ Exists(fs, PrefixPath(i))
    /\ ~IsPrefix(NamesOf(jail), NamesOf(Canonical(fs, PrefixPath(i))))

\* i is the shortest proper prefix of the components of arg that resolves
\* outside the root
FirstOutside(i) ==
    /\ i \in 1..(Len(Components(arg)) - 1)
    /\ ResolvesOutside(i)
    /\ \A k \in 1..(i - 1) : ~ResolvesOutside(k)

\* C24: when a proper prefix of the components of p resolves to an existing
\* location outside the root, join(p) fails with EscapedRoot at the first
\* such component, whatever follows: later ".." components do not bring the
\* walk back inside
C24_FailFast ==
    (Joined /\ ~StrContains(arg, NUL) /\ ~IsAbsolute(arg)) =>
        \A i \in 1..(Len(Components(arg)) - 1) :
            FirstOutside(i) => ReturnsAt(i) /\ ~res.ok /\ res.kind = "EscapedRoot"

\* a symlink to the directory outside the root followed by "..": the
\* lexical normalization is the root, the join fails
C24_Witness ==
    /\ Joined /\ ~StrContains(arg, NUL) /\ ~IsAbsolute(arg)
    /\ Len(Components(arg)) = 2
    /\ Components(arg)[1].k = "Normal" /\ Components(arg)[2].k = "ParentDir"
    /\ FirstOutside(1)
    /\ Normalize(NamesOf(arg), <<>>) = [ok |-> TRUE, names |-> <<>>]
    /\ res.kind = "EscapedRoot"

\* a call of the query-by-query join is in progress
InProgress == pc \in {"component", "verify", "symlink"}

\* a call of the query-by-query join has returned
Raced == pc = "done" /\ op = "join_steps"

\* what is left of the one pass over the components: the components not
\* taken yet, counted twice, less one when the query exists() of the current
\* component is done
Left ==
    2 * Len(pending.rest) - (IF pc \in {"verify", "symlink"} THEN 1 ELSE 0)

\* a join that has returned success returned a path with the root as
\* component-wise prefix, and an error is never InvalidRoot; a query is only
\* made for a component of the input
C25_InsideOrError ==
    /\ Raced =>
          /\ res.ok => Inside(res.val, jail)
          /\ res.kind \in {"Ok", "EscapedRoot", "BrokenSymlink", "InvalidPath", "Io"}
    /\ pc \in {"verify", "symlink"} => pending.rest # <<>>

\* the loop starts with the components of the input, and every step of the
\* call returns or moves on in the one pass
C25_OnePass ==
    /\ (pc = "idle" /\ pc' = "component") => pending'.rest = Components(arg')
    /\ (InProgress /\ pc' # pc) \/ (InProgress /\ pending' # pending)
          => (pc' = "done" /\ Raced') \/ (InProgress' /\ Left' < Left)

\* C25: with the filesystem changing between the single queries of a join
\* call (exists, is_symlink, canonicalize), a join that returns success
\* returns a path with the root as component-wise prefix, and join ends
\* after one pass over the components of its input with a success or one of
\* EscapedRoot, BrokenSymlink, InvalidPath, Io, never InvalidRoot: whatever
\* the environment does, a thread that keeps taking steps inside join does
\* not stay inside it for ever
C25_RacedJoin ==
    /\ [](C25_InsideOrError)
    /\ [][C25_OnePass]_vars
    /\ ([]<><<JoinRuns>>_vars => []<>(~InProgress))

\* a join returned a path that a change between its queries has made lead
\* outside the root: the path still has the root as prefix
C25_Witness ==
    /\ Raced /\ res.ok /\ Inside(res.val, jail)
    /\ Exists(fs, res.val)
    /\ ~IsPrefix(NamesOf(jail), NamesOf(Canonical(fs, res.val)))

====
